---- MODULE Spec2Model ----
(***************************************************************************)
(* Model of the image-generation request handler generateImage of Artify   *)
(* (server controller) and of the client-side guard in AppContext.jsx.     *)
(*                                                                         *)
(* One request is a process that moves from await to await: findById, the  *)
(* upstream POST, each status poll, the secondary fetch of an output URL,  *)
(* and user.save.  Everything the handler does between two awaits is one   *)
(* atomic step.                                                            *)
(*                                                                         *)
(* Representation of JavaScript values:                                    *)
(*   - a string is a sequence of tokens, each token a fixed run of         *)
(*     characters ("data:", "image/", "png", ";base64", ",", ...); the     *)
(*     empty sequence is the empty string;                                 *)
(*   - a value that may be undefined, a string or an array of strings is   *)
(*     a record [t, v]: v holds the string (one element) or the elements   *)
(*     of the array;                                                       *)
(*   - a byte buffer is a sequence of numbers 0..255.                      *)
(***************************************************************************)
EXTENDS Integers, Sequences, FiniteSets, TLC

VARIABLES
    db,        \* persisted creditBalance of the account (userModel collection)
    credit0,   \* the creditBalance the account held before any request
    hfToken,   \* whether HF_TOKEN is configured (process environment)
    pc,        \* per request: the await the handler is suspended at
    loc,       \* per request: the handler's local variables
    res,       \* per request: the response sent through res.status().json()
    obs        \* per request: observation of the calls the handler has issued

vars == <<db, credit0, hfToken, pc, loc, res, obs>>

----------------------------------------------------------------------------
(* Bounds of the model *)

\* largest initial credit balance of the account
MaxCredit == 2

\* program constants
maxAttempts == 30
Base64Threshold == 100

\* the requests (handler invocations) of a run
Reqs == {"r1", "r2", "r3"}

----------------------------------------------------------------------------
(* Strings as token sequences *)

\* the base64 alphabet, one token per character
B64Alphabet ==
    << "A","B","C","D","E","F","G","H","I","J","K","L","M","N","O","P",
       "Q","R","S","T","U","V","W","X","Y","Z","a","b","c","d","e","f",
       "g","h","i","j","k","l","m","n","o","p","q","r","s","t","u","v",
       "w","x","y","z","0","1","2","3","4","5","6","7","8","9","+","/" >>

\* number of characters of a token
TokLen(tok) ==
    CASE tok = "data:" -> 5
      [] tok = "image/" -> 6
      [] tok = "png" -> 3
      [] tok = "jpeg" -> 4
      [] tok = "svg+xml" -> 7
      [] tok = ";base64" -> 7
      [] tok = "," -> 1
      [] tok = "http://" -> 7
      [] tok = "https://" -> 8
      [] tok = "QUJD" -> 4
      [] tok = "b64x100" -> 100
      [] tok = "b64x101" -> 101
      [] tok = " " -> 1
      [] tok = "=" -> 1
      [] tok \in {B64Alphabet[i] : i \in 1..64} -> 1
      [] OTHER -> 8

RECURSIVE StrLen(_)
StrLen(s) == IF s = <<>> THEN 0 ELSE TokLen(Head(s)) + StrLen(Tail(s))

\* String.prototype.startsWith
StartsWith(s, p) == Len(s) >= Len(p) /\ SubSeq(s, 1, Len(p)) = p

\* String.prototype.includes, for a needle that is one token
Includes(s, tok) == \E i \in 1..Len(s) : s[i] = tok

\* index of the first "," of s at or after position i, or 0
RECURSIVE CommaFrom(_, _)
CommaFrom(s, i) ==
    IF i > Len(s) THEN 0 ELSE IF s[i] = "," THEN i ELSE CommaFrom(s, i + 1)

\* values: undefined, a string, an array of strings
Undef == [t |-> "undefined", v |-> <<>>]
Str(s) == [t |-> "string", v |-> <<s>>]
Arr(a) == [t |-> "array", v |-> a]

\* JavaScript truthiness of such a value
Truthy(x) ==
    \/ x.t = "array"
    \/ x.t = "string" /\ x.v[1] # <<>>

\* s.split(",")[1]: the text between the first and the second comma,
\* undefined when s holds no comma
SplitComma1(s) ==
    LET c1 == CommaFrom(s, 1) IN
    IF c1 = 0 THEN Undef
    ELSE LET c2 == CommaFrom(s, c1 + 1) IN
         Str(SubSeq(s, c1 + 1, (IF c2 = 0 THEN Len(s) ELSE c2 - 1)))

\* the \w+ part of /^data:image\/\w+;base64,/
IsWord(tok) == tok \in {"png", "jpeg", "QUJD", "b64x100", "b64x101"}

\* s.replace(/^data:image\/\w+;base64,/, "")
StripDataUri(s) ==
    IF /\ Len(s) >= 5
       /\ s[1] = "data:" /\ s[2] = "image/" /\ IsWord(s[3])
       /\ s[4] = ";base64" /\ s[5] = ","
    THEN SubSeq(s, 6, Len(s))
    ELSE s

----------------------------------------------------------------------------
(* Byte buffers *)

\* Buffer.from(bytes).toString("base64"): one token per character
RECURSIVE Base64(_)
Base64(b) ==
    IF Len(b) = 0 THEN <<>>
    ELSE IF Len(b) = 1 THEN
        << B64Alphabet[(b[1] \div 4) + 1],
           B64Alphabet[((b[1] % 4) * 16) + 1], "=", "=" >>
    ELSE IF Len(b) = 2 THEN
        << B64Alphabet[(b[1] \div 4) + 1],
           B64Alphabet[((b[1] % 4) * 16) + (b[2] \div 16) + 1],
           B64Alphabet[((b[2] % 16) * 4) + 1], "=" >>
    ELSE
        << B64Alphabet[(b[1] \div 4) + 1],
           B64Alphabet[((b[1] % 4) * 16) + (b[2] \div 16) + 1],
           B64Alphabet[((b[2] % 16) * 4) + (b[3] \div 64) + 1],
           B64Alphabet[(b[3] % 64) + 1] >>
        \o Base64(SubSeq(b, 4, Len(b)))

IsSpace(byte) == byte \in {9, 10, 13, 32}

\* first byte of the text after trim(), 0 when nothing is left
RECURSIVE FirstNonSpace(_)
FirstNonSpace(b) ==
    IF Len(b) = 0 THEN 0
    ELSE IF IsSpace(b[1]) THEN FirstNonSpace(Tail(b)) ELSE b[1]

\* responseText.trim().startsWith("{") || responseText.trim().startsWith("[")
LooksLikeJson(b) == FirstNonSpace(b) \in {123, 91}

----------------------------------------------------------------------------
(* Upstream documents *)

\* a parsed JSON object: the fields the handler reads; "" and <<>> stand for
\* an absent field
EmptyObj ==
    [id |-> "", status |-> "", output |-> Undef, error |-> <<>>,
     message |-> <<>>, images |-> Undef, image |-> Undef]

DataUriQUJD == <<"data:", "image/", "png", ";base64", ",", "QUJD">>
ImageUrl == <<"https://", "cdn/out.png">>

ErrorObj == [EmptyObj EXCEPT !.error = <<"model overloaded">>]
BusyErrorObj == [EmptyObj EXCEPT !.error = <<"still ", "processing">>]
ImagesObj == [EmptyObj EXCEPT !.images = Arr(<<<<"QUJD">>>>)]
Handle(status) == [EmptyObj EXCEPT !.id = "p1", !.status = status]
SucceededArr == [Handle("succeeded") EXCEPT !.output = Arr(<<DataUriQUJD>>)]
SucceededUrl == [Handle("succeeded") EXCEPT !.output = Str(ImageUrl)]
FailedErr == [Handle("failed") EXCEPT !.error = <<"NSFW content">>]

\* {status:"succeeded", output:[...]} without an id
SucceededNoId ==
    [EmptyObj EXCEPT !.status = "succeeded", !.output = Arr(<<DataUriQUJD>>)]
\* images[0] is a data-URI prefix with nothing after it
ImagesPrefixOnly ==
    [EmptyObj EXCEPT
        !.images = Arr(<< <<"data:", "image/", "png", ";base64", ",">> >>)]
\* image is a data-URI of mime type image/svg+xml
DataUriSvg == <<"data:", "image/", "svg+xml", ";base64", ",", "QUJD">>
ImageSvgObj == [EmptyObj EXCEPT !.image = Str(DataUriSvg)]
\* image is a data-URI of mime type image/jpeg
ImageJpegObj ==
    [EmptyObj EXCEPT
        !.image = Str(<<"data:", "image/", "jpeg", ";base64", ",", "QUJD">>)]
\* images and image both present
ImagesAndImageObj ==
    [EmptyObj EXCEPT !.images = Arr(<<<<"QUJD">>, <<"b64x100">>>>),
                     !.image = Str(<<"b64x101">>)]
\* succeeded predictions whose output is plain text of 4, 100, 101 characters
SucceededText(s) == [Handle("succeeded") EXCEPT !.output = Str(s)]
SucceededTexts(s) == [Handle("succeeded") EXCEPT !.output = Arr(<<s>>)]
\* a succeeded prediction without output
SucceededNoOutput == Handle("succeeded")
\* a succeeded prediction whose output is a data-URI of another mime type
SucceededSvg == [Handle("succeeded") EXCEPT !.output = Arr(<<DataUriSvg>>)]

PngBytes == <<137, 80, 78>>

\* a body as the transport yields it: form is "buffer" (Buffer, ArrayBuffer,
\* Uint8Array) or "text" (string); bytes is its content; parsed is what
\* JSON.parse returns for that content: <<obj>>, or <<>> for a SyntaxError.
\* The bytes of a JSON text are abbreviated to "{", one byte naming the
\* document, "}".
Body(form, bytes, parsed) == [form |-> form, bytes |-> bytes, parsed |-> parsed]
NoBody == Body("none", <<>>, <<>>)

JsonDocs ==
    << ErrorObj, BusyErrorObj, ImagesObj, EmptyObj,
       Handle("starting"), Handle("processing"),
       SucceededArr, SucceededUrl, FailedErr, Handle("failed"),
       Handle("canceled"),
       SucceededNoId, ImagesPrefixOnly, ImageSvgObj, ImageJpegObj,
       ImagesAndImageObj,
       SucceededText(<<"QUJD">>), SucceededText(<<"b64x101">>),
       SucceededTexts(<<"QUJD">>), SucceededTexts(<<"b64x100">>),
       SucceededTexts(<<"b64x101">>),
       SucceededNoOutput, SucceededSvg >>

Forms == {"buffer", "text"}

\* the bytes of the word processing and of the text [processing]
ProcessingWord == <<112, 114, 111, 99, 101, 115, 115, 105, 110, 103>>
ProcessingBlob == <<91>> \o ProcessingWord \o <<93>>

\* contents that are no JSON document: image bytes of 0 to 5 bytes, and
\* bytes whose text begins with "{" or "[" (also after blanks) and does not
\* parse
Blobs ==
    { PngBytes, <<>>, <<123, 255>>, <<255>>, <<137, 80, 78, 71>>,
      <<0, 16, 131, 16, 81>>, <<91, 0>>, <<32, 123, 255>>, ProcessingBlob }

\* the bodies the upstream may answer the generation POST with
UpstreamReplies ==
    {Body(f, b, <<>>) : f \in Forms, b \in Blobs}
    \cup {Body(f, <<123, i, 125>>, <<JsonDocs[i]>>) :
            f \in Forms, i \in 1..Len(JsonDocs)}

\* JSON.parse
JsonParse(body) == body.parsed

\* the bytes b hold the bytes w in a row
HasBytes(b, w) ==
    \E i \in 1..(Len(b) - Len(w) + 1) : SubSeq(b, i, i + Len(w) - 1) = w

\* the message of the SyntaxError JSON.parse throws for a text that does not
\* parse.  It depends on the engine the server runs on: older ones name the
\* token and its position, newer ones quote the source text around it.
SyntaxErrorMessages(b) ==
    { <<"Unexpected token in JSON">>,
      <<"Unexpected token, ">>
        \o (IF HasBytes(b, ProcessingWord) THEN <<"processing">> ELSE <<"text">>)
        \o <<" is not valid JSON">> }

\* a thrown Error: its message, and for an axios HTTP error its response
\* (status and body) as <<[status, data]>>
Err(msg) == [message |-> msg, response |-> <<>>]
HttpErr(msg, status, data) ==
    [message |-> msg, response |-> <<[status |-> status, data |-> data]>>]

\* the ways axios.post may reject
PostErrors ==
    { Err(<<"timeout of 120000ms exceeded">>),
      HttpErr(<<"Request failed with status code 503">>, 503,
              Body("buffer", <<123, 1, 125>>, <<ErrorObj>>)) }

\* the handles a status query may answer with
PollAnswers ==
    { Handle("starting"), Handle("processing"), SucceededArr, SucceededUrl,
      FailedErr, Handle("failed"), Handle("canceled") }

\* the rejection of the secondary fetch of an output URL
FetchError == Err(<<"timeout of 30000ms exceeded">>)

----------------------------------------------------------------------------
(* Responses *)

NoResponse ==
    [status |-> 0, success |-> FALSE, message |-> <<>>, credit |-> <<>>,
     resultImage |-> <<>>]

\* res.status(status).json({ success: false, message })
Failure(status, msg) ==
    [status |-> status, success |-> FALSE, message |-> msg, credit |-> <<>>,
     resultImage |-> <<>>]

MsgMissing == <<"Missing userId or prompt.">>
MsgNotFound == <<"User not found.">>
MsgNoCredit == <<"No Credit Balance">>
MsgNoToken == <<"Hugging Face API token not configured.">>
MsgNoImage == <<"No image data returned from Hugging Face API.">>
MsgFailed == <<"Image generation failed">>
MsgSaveFailed == <<"save failed">>
MsgSuccess == <<"Image generated successfully">>
MsgStillProcessing(status) ==
    <<"Image generation is still ", "processing", " after polling. ",
      "Status:", " ", status>>
MsgUnexpectedStatus(status) == <<"Unexpected prediction status: ", status>>

\* a || b on strings
OrElse(a, b) == IF a # <<>> THEN a ELSE b

\* the message the outer catch extracts from error.response.data
ResponseMessage(data, errorMessage) ==
    IF JsonParse(data) = <<>>
    THEN (IF data.form = "text" /\ data.bytes # <<>>
          THEN <<"raw response text">>
          ELSE errorMessage)
    ELSE OrElse(JsonParse(data)[1].error,
                OrElse(JsonParse(data)[1].message, errorMessage))

\* the outer catch of generateImage
CatchAll(error) ==
    LET errorMessage == OrElse(error.message, MsgFailed) IN
    IF error.response = <<>>
    THEN Failure(500, errorMessage)
    ELSE Failure(error.response[1].status,
                 ResponseMessage(error.response[1].data, errorMessage))

----------------------------------------------------------------------------
(* The handler's classification and extraction, between awaits *)

IsHttpUrl(s) == StartsWith(s, <<"http://">>) \/ StartsWith(s, <<"https://">>)
IsDataUri(s) == StartsWith(s, <<"data:">>)

\* jsonData.id && jsonData.status
IsPrediction(j) == j.id # "" /\ j.status # ""

IsTransient(status) == status = "starting" \/ status = "processing"

\* outcomes of the synchronous code that follows a parsed reply:
\*   fetch   an output URL has to be fetched (await axios.get(output))
\*   image   imageBase64 has been assigned
\*   binary  imageBase64 = Buffer.from(responseData).toString("base64")
\*   throw   an Error has been thrown
OFetch(url) == [k |-> "fetch", url |-> url, img |-> Undef, err |-> Err(<<>>)]
OImage(img) == [k |-> "image", url |-> <<>>, img |-> img, err |-> Err(<<>>)]
OBinary == [k |-> "binary", url |-> <<>>, img |-> Undef, err |-> Err(<<>>)]
OThrow(msg) == [k |-> "throw", url |-> <<>>, img |-> Undef, err |-> Err(msg)]

\* output.startsWith("data:") ? output.split(",")[1] : output
DataUriPayload(s) == IF IsDataUri(s) THEN SplitComma1(s) ELSE Str(s)

\* the byte-buffer branch, for a prediction whose status is final
ExtractPredictionBuffer(j) ==
    IF j.status = "succeeded" /\ Truthy(j.output) THEN
        IF j.output.t = "array" /\ Len(j.output.v) > 0 /\ j.output.v[1] # <<>>
        THEN LET output == j.output.v[1] IN
             IF IsHttpUrl(output) THEN OFetch(output)
             ELSE IF IsDataUri(output) THEN OImage(SplitComma1(output))
             ELSE IF StrLen(output) > Base64Threshold THEN OImage(Str(output))
             ELSE OThrow(<<"Prediction succeeded but no valid image output found">>)
        ELSE IF j.output.t = "string"
        THEN IF IsHttpUrl(j.output.v[1]) THEN OFetch(j.output.v[1])
             ELSE OImage(DataUriPayload(j.output.v[1]))
        ELSE OThrow(<<"Prediction succeeded but output format is unexpected">>)
    ELSE IF j.status = "failed" THEN OThrow(OrElse(j.error, MsgFailed))
    ELSE IF IsTransient(j.status) THEN OThrow(MsgStillProcessing(j.status))
    ELSE OThrow(MsgUnexpectedStatus(j.status))

\* the text branch, for a prediction whose status is final
ExtractPredictionText(j) ==
    IF j.status = "succeeded" /\ Truthy(j.output) THEN
        LET output == IF j.output.t = "array"
                      THEN (IF Len(j.output.v) > 0 THEN Str(j.output.v[1])
                            ELSE Undef)
                      ELSE j.output IN
        IF output.t = "string"
        THEN IF IsHttpUrl(output.v[1]) THEN OFetch(output.v[1])
             ELSE OImage(DataUriPayload(output.v[1]))
        ELSE OThrow(<<"Prediction output format is unexpected">>)
    ELSE IF j.status = "failed" THEN OThrow(OrElse(j.error, MsgFailed))
    ELSE IF IsTransient(j.status) THEN OThrow(MsgStillProcessing(j.status))
    ELSE OThrow(MsgUnexpectedStatus(j.status))

ExtractPrediction(form, j) ==
    IF form = "buffer" THEN ExtractPredictionBuffer(j)
    ELSE ExtractPredictionText(j)

\* a JSON object that is no prediction: error, images, image
ExtractObject(form, j) ==
    IF j.error # <<>> \/ j.message # <<>>
    THEN OThrow(OrElse(j.error, j.message))
    ELSE IF j.images.t = "array" /\ Len(j.images.v) > 0 /\ j.images.v[1] # <<>>
    THEN OImage(Str(j.images.v[1]))
    ELSE IF Truthy(j.image) THEN OImage(j.image)
    ELSE IF form = "buffer" THEN OBinary
    ELSE OThrow(<<"No image data found in JSON response">>)

\* faulty variant of IsPollingError: the inner catch looks for another word
IsPollingErrorTimeout(msg) == Includes(msg, "timeout")

\* the test of the inner catch of the byte-buffer branch: errors it re-throws
IsPollingError(msg) == Includes(msg, "processing") \/ Includes(msg, "Status:")

\* faulty variant of Debit: the balance is lowered by two
DebitTwo(balance) == IF balance - 2 > 0 THEN balance - 2 ELSE 0

\* Math.max(0, user.creditBalance - 1)
Debit(balance) == IF balance - 1 > 0 THEN balance - 1 ELSE 0

DataPngPrefix == <<"data:", "image/", "png", ";base64", ",">>

\* what a step leaves behind: the next await (or "done"), the locals, the
\* response sent (NoResponse while the request goes on), and whether
\* user.creditBalance was assigned
Config(p, l, r, a) == [pc |-> p, loc |-> l, res |-> r, assigned |-> a]

\* faulty variant of Caught: the Error leaves the handler, nothing is sent
CaughtUnanswered(l, err) == Config("escaped", l, NoResponse, FALSE)

\* an Error reaches the outer catch
Caught(l, err) == Config("done", l, CatchAll(err), FALSE)

\* faulty variant of Validate: the balance is lowered before the payload is checked
ValidateAfterDebit(l, img) ==
    LET d == [l EXCEPT !.imageBase64 = img, !.user = <<Debit(l.user[1])>>] IN
    IF ~Truthy(img) \/ StrLen(img.v[1]) = 0
    THEN Config("done", d, Failure(500, MsgNoImage), TRUE)
    ELSE Config("save",
                [d EXCEPT !.resultImage = DataPngPrefix \o StripDataUri(img.v[1])],
                NoResponse, TRUE)

\* the validation of imageBase64, the data-URI wrapping and the debit, up to
\* await user.save()
Validate(l, img) ==
    IF ~Truthy(img) \/ StrLen(img.v[1]) = 0
    THEN Config("done", [l EXCEPT !.imageBase64 = img],
                Failure(500, MsgNoImage), FALSE)
    ELSE Config("save",
                [l EXCEPT !.imageBase64 = img,
                          !.resultImage = DataPngPrefix \o StripDataUri(img.v[1]),
                          !.user = <<Debit(l.user[1])>>],
                NoResponse, TRUE)

\* the inner catch of the byte-buffer branch
InnerCatch(l, err) ==
    IF IsPollingError(err.message) THEN Caught(l, err)
    ELSE Validate(l, Str(Base64(l.responseData.bytes)))

\* an Error thrown while classifying, polling-exit or fetching
Thrown(l, err) ==
    IF l.responseData.form = "buffer" THEN InnerCatch(l, err)
    ELSE Caught(l, err)

\* the handler from an extraction outcome to its next await
Resolve(l, oc) ==
    CASE oc.k = "fetch" -> Config("fetch", [l EXCEPT !.fetchUrl = oc.url],
                                  NoResponse, FALSE)
      [] oc.k = "image" -> Validate(l, oc.img)
      [] oc.k = "binary" -> Validate(l, Str(Base64(l.responseData.bytes)))
      [] oc.k = "throw" -> Thrown(l, oc.err)

\* the handler once jsonData holds a final prediction or another object
Extract(l) ==
    IF IsPrediction(l.jsonData)
    THEN Resolve(l, ExtractPrediction(l.responseData.form, l.jsonData))
    ELSE Resolve(l, ExtractObject(l.responseData.form, l.jsonData))

\* the handler from the upstream reply to its next await; syntaxError is the
\* message JSON.parse throws with, should the reply not parse
Classify(l0, reply, syntaxError) ==
    LET l == [l0 EXCEPT !.responseData = reply] IN
    IF reply.form = "buffer" /\ ~LooksLikeJson(reply.bytes)
    THEN Validate(l, Str(Base64(reply.bytes)))
    ELSE IF JsonParse(reply) = <<>>
    THEN Thrown(l, Err(syntaxError))
    ELSE LET j == JsonParse(reply)[1]
             lj == [l EXCEPT !.jsonData = j, !.finalPrediction = j] IN
         IF IsPrediction(j) /\ IsTransient(j.status)
         THEN Config("poll", lj, NoResponse, FALSE)
         ELSE Extract(lj)

----------------------------------------------------------------------------
(* State *)

\* the account ids userModel holds
Accounts == {"u1"}

\* req.body.userId: absent, the account, an id of no account
UserIds == {"", "u1", "u404"}

\* req.body.prompt as characters: absent or empty, blank, a text
Prompts == {<<>>, <<" ", " ">>, <<"a", " ", "c", "a", "t">>}

InitLoc ==
    [userId |-> "", prompt |-> <<>>, user |-> <<>>, responseData |-> NoBody,
     jsonData |-> EmptyObj, finalPrediction |-> EmptyObj, attempts |-> 0,
     imageBase64 |-> Undef, resultImage |-> <<>>, fetchUrl |-> <<>>]

InitObs ==
    [balAtStart |-> 0, posts |-> 0, polls |-> 0, pollErrors |-> 0,
     terminalAt |-> 0, fetches |-> 0, fetchErrors |-> 0, assigns |-> 0,
     saves |-> 0]

Init ==
    /\ db \in 0..MaxCredit
    /\ credit0 = db
    /\ hfToken \in BOOLEAN
    /\ pc = [r \in Reqs |-> "idle"]
    /\ loc = [r \in Reqs |-> InitLoc]
    /\ res = [r \in Reqs |-> NoResponse]
    /\ obs = [r \in Reqs |-> InitObs]

\* the request r goes on as configuration c says
Goto(r, c) ==
    /\ pc' = [pc EXCEPT ![r] = c.pc]
    /\ loc' = [loc EXCEPT ![r] = c.loc]
    /\ res' = [res EXCEPT ![r] = c.res]

----------------------------------------------------------------------------
(* The handler, one action per await *)

\* faulty variant of MissingInput: the prompt is not looked at
MissingInputUserOnly(userId, prompt) == userId = ""

\* !userId || !prompt
MissingInput(userId, prompt) == userId = "" \/ prompt = <<>>

\* entry of generateImage up to await userModel.findById(userId)
Validated(userId, prompt) ==
    LET l == [InitLoc EXCEPT !.userId = userId, !.prompt = prompt] IN
    IF MissingInput(userId, prompt)
    THEN Config("done", l, Failure(400, MsgMissing), FALSE)
    ELSE Config("findById", l, NoResponse, FALSE)

Start(r, userId, prompt) ==
    /\ pc[r] = "idle"
    /\ Goto(r, Validated(userId, prompt))
    /\ obs' = [obs EXCEPT ![r].balAtStart = db]
    /\ UNCHANGED <<db, credit0, hfToken>>

\* faulty variant of NoCredit: a balance of zero passes
NoCreditBelowZero(balance) == balance < 0

\* user.creditBalance <= 0
NoCredit(balance) == balance <= 0

\* from the document findById resolved to (<<>> for null) up to await
\* axios.post
Checked(l0, user, token) ==
    LET l == [l0 EXCEPT !.user = user] IN
    IF user = <<>> THEN Config("done", l, Failure(404, MsgNotFound), FALSE)
    ELSE IF NoCredit(user[1])
    THEN Config("done", l,
                [Failure(403, MsgNoCredit) EXCEPT !.credit = <<user[1]>>],
                FALSE)
    ELSE IF ~token THEN Config("done", l, Failure(500, MsgNoToken), FALSE)
    ELSE Config("post", l, NoResponse, FALSE)

FindUser(r) ==
    /\ pc[r] = "findById"
    /\ Goto(r, Checked(loc[r],
                       (IF loc[r].userId \in Accounts THEN <<db>> ELSE <<>>),
                       hfToken))
    /\ UNCHANGED <<db, credit0, hfToken, obs>>

\* axios.post resolves with a 2xx reply
Post(r, reply) ==
    /\ pc[r] = "post"
    /\ \E syntaxError \in SyntaxErrorMessages(reply.bytes) :
        LET c == Classify(loc[r], reply, syntaxError) IN
        /\ Goto(r, c)
        /\ obs' = [obs EXCEPT ![r].posts = @ + 1,
                              ![r].assigns = @ + (IF c.assigned THEN 1 ELSE 0)]
    /\ UNCHANGED <<db, credit0, hfToken>>

\* axios.post rejects
PostFails(r, err) ==
    /\ pc[r] = "post"
    /\ Goto(r, Caught(loc[r], err))
    /\ obs' = [obs EXCEPT ![r].posts = @ + 1]
    /\ UNCHANGED <<db, credit0, hfToken>>

\* faulty variant of LoopContinues: one attempt too many
LoopContinuesInclusive(attempts, status) ==
    attempts <= maxAttempts /\ (status = "starting" \/ status = "processing")

\* the condition of the polling loop
LoopContinues(attempts, status) ==
    attempts < maxAttempts /\ IsTransient(status)

IsTerminal(status) == status = "succeeded" \/ status = "failed"

\* faulty variant of Polled: a network error marks the prediction failed
PolledFailsOnError(finalPrediction, answer) ==
    IF answer = <<>> THEN [finalPrediction EXCEPT !.status = "failed"]
    ELSE answer[1]

\* finalPrediction after one status query: answer is <<handle>>, or <<>> when
\* axios.get rejected
Polled(finalPrediction, answer) ==
    IF answer = <<>> THEN finalPrediction ELSE answer[1]

\* attempts after one pass of the loop body
Attempted(attempts) == attempts + 1

\* one pass of the loop body (sleep, attempts++, status query), the loop
\* test, and on leaving the loop the handler up to its next await
PollStep(l0, answer) ==
    LET fp == Polled(l0.finalPrediction, answer)
        l == [l0 EXCEPT !.attempts = Attempted(l0.attempts),
                        !.finalPrediction = fp]
        break == answer # <<>> /\ IsTerminal(fp.status) IN
    IF ~break /\ LoopContinues(l.attempts, fp.status)
    THEN Config("poll", l, NoResponse, FALSE)
    ELSE Extract([l EXCEPT !.jsonData.status = fp.status,
                           !.jsonData.output = fp.output,
                           !.jsonData.error = fp.error])

Poll(r, answer) ==
    /\ pc[r] = "poll"
    /\ LET c == PollStep(loc[r], answer) IN
       /\ Goto(r, c)
       /\ obs' = [obs EXCEPT
                    ![r].polls = @ + 1,
                    ![r].pollErrors = @ + (IF answer = <<>> THEN 1 ELSE 0),
                    ![r].terminalAt =
                        IF answer # <<>> /\ IsTerminal(answer[1].status)
                        THEN obs[r].polls + 1 ELSE @,
                    ![r].assigns = @ + (IF c.assigned THEN 1 ELSE 0)]
    /\ UNCHANGED <<db, credit0, hfToken>>

\* the secondary fetch resolves with the image bytes
Fetch(r, bytes) ==
    /\ pc[r] = "fetch"
    /\ LET c == Validate(loc[r], Str(Base64(bytes))) IN
       /\ Goto(r, c)
       /\ obs' = [obs EXCEPT ![r].fetches = @ + 1,
                             ![r].assigns = @ + (IF c.assigned THEN 1 ELSE 0)]
    /\ UNCHANGED <<db, credit0, hfToken>>

\* the secondary fetch rejects
FetchFails(r) ==
    /\ pc[r] = "fetch"
    /\ LET c == Thrown(loc[r], FetchError) IN
       /\ Goto(r, c)
       /\ obs' = [obs EXCEPT ![r].fetches = @ + 1,
                             ![r].fetchErrors = @ + 1,
                             ![r].assigns = @ + (IF c.assigned THEN 1 ELSE 0)]
    /\ UNCHANGED <<db, credit0, hfToken>>

\* res.json({ success: true, ... })
Success(l) ==
    [status |-> 200, success |-> TRUE, message |-> MsgSuccess,
     credit |-> <<l.user[1]>>, resultImage |-> l.resultImage]

\* the value user.save() writes to the collection
Saved(l) == l.user[1]

\* user.save() resolves
Save(r) ==
    /\ pc[r] = "save"
    /\ db' = Saved(loc[r])
    /\ Goto(r, Config("done", loc[r], Success(loc[r]), FALSE))
    /\ obs' = [obs EXCEPT ![r].saves = @ + 1]
    /\ UNCHANGED <<credit0, hfToken>>

\* user.save() rejects: nothing is written
SaveFails(r) ==
    /\ pc[r] = "save"
    /\ Goto(r, Caught(loc[r], Err(MsgSaveFailed)))
    /\ obs' = [obs EXCEPT ![r].saves = @ + 1]
    /\ UNCHANGED <<db, credit0, hfToken>>

----------------------------------------------------------------------------
(* The client: generateImage of AppContext.jsx *)

RECURSIVE TrimLeft(_)
TrimLeft(s) ==
    IF s # <<>> /\ Head(s) = " " THEN TrimLeft(Tail(s)) ELSE s

\* !prompt || prompt.trim() === ""
ClientRejects(prompt) == prompt = <<>> \/ TrimLeft(prompt) = <<>>

\* the client posts the prompt; the routing layer supplies the userId
ClientStart(r, userId, prompt) ==
    /\ ~ClientRejects(prompt)
    /\ Start(r, userId, prompt)

----------------------------------------------------------------------------
(* Specifications *)

\* what the callers send and the collaborators answer: request bodies, the
\* upstream POST, the status queries, the secondary fetch
FullEnv ==
    [userIds |-> UserIds, prompts |-> Prompts,
     replies |-> UpstreamReplies, postErrors |-> PostErrors,
     answers |-> {<<h>> : h \in PollAnswers} \cup {<<>>},
     images |-> {PngBytes, <<>>}]

\* one step of request r: it arrives, from the client or from any other
\* caller, or an await of its handler settles
Step(r, env) ==
    \/ \E u \in env.userIds, p \in env.prompts : Start(r, u, p)
    \/ \E u \in env.userIds, p \in env.prompts : ClientStart(r, u, p)
    \/ FindUser(r)
    \/ \E reply \in env.replies : Post(r, reply)
    \/ \E err \in env.postErrors : PostFails(r, err)
    \/ \E answer \in env.answers : Poll(r, answer)
    \/ \E bytes \in env.images : Fetch(r, bytes)
    \/ FetchFails(r)
    \/ Save(r)
    \/ SaveFails(r)

\* the request of the specification Spec
Lone == "r1"

\* a single request run in isolation, whatever the collaborators answer
Next == Step(Lone, FullEnv)

Spec == Init /\ [][Next]_vars

\* an await of the request settles: every call the handler awaits resolves
\* or rejects in the end (axios.post, the status queries and the secondary
\* fetch carry a timeout; the sleep between two queries is a timer)
Settle == pc[Lone] # "idle" /\ Next

\* the single request under a scheduler that runs every settled await
SpecLive == Spec /\ WF_vars(Settle)

\* concurrent requests on the account: the upstream answers with an image,
\* with a prediction that a status query finds succeeded, or with an error
ConcEnv ==
    [userIds |-> {"u1"}, prompts |-> {<<"a", " ", "c", "a", "t">>},
     replies |-> {Body("buffer", PngBytes, <<>>),
                  Body("buffer", <<123, 6, 125>>, <<Handle("processing")>>),
                  Body("text", <<123, 1, 125>>, <<ErrorObj>>)},
     postErrors |-> {Err(<<"timeout of 120000ms exceeded">>)},
     answers |-> {<<SucceededUrl>>},
     images |-> {PngBytes}]

\* any interleaving of the requests' awaits
NextConc == \E r \in Reqs : Step(r, ConcEnv)

SpecConc == Init /\ [][NextConc]_vars

----------------------------------------------------------------------------
(* Properties *)

Started(r) == pc[r] # "idle"
Done(r) == pc[r] = "done"
Failed(r) == Done(r) /\ ~res[r].success
Succeeded(r) == Done(r) /\ res[r].success

\* C1: a request run in isolation that ends with a success response has
\* called user.save exactly once, has lowered the persisted balance b it
\* started from to b - 1 (b > 0), and reports b - 1 as creditBalance.
C1_SuccessDebitsExactlyOne ==
    \A r \in Reqs :
        Succeeded(r) =>
            /\ obs[r].balAtStart > 0
            /\ loc[r].prompt # <<>>
            /\ obs[r].saves = 1
            /\ obs[r].assigns = 1
            /\ db = obs[r].balAtStart - 1
            /\ res[r].credit = <<obs[r].balAtStart - 1>>

C1_Witness ==
    \E r \in Reqs :
        Succeeded(r) /\ obs[r].balAtStart = 2 /\ db = 1 /\ res[r].credit = <<1>>

\* C2 as stated: a request that ends with a failure response has never
\* assigned user.creditBalance nor called user.save, and the balance is the
\* one it started from.
C2_FailureNeverTouchesAccount ==
    \A r \in Reqs :
        Failed(r) =>
            /\ obs[r].assigns = 0
            /\ obs[r].saves = 0
            /\ db = obs[r].balAtStart

\* C2 as amended: user.creditBalance is assigned only together with the call
\* of user.save and only once the payload has passed the non-empty check; a
\* failure response leaves the persisted balance as it was, and it follows
\* an assignment and a save only when that save itself rejected.
C2_FailureLeavesBalance ==
    \A r \in Reqs :
        /\ obs[r].assigns > 0 =>
              /\ Truthy(loc[r].imageBase64)
              /\ StrLen(loc[r].imageBase64.v[1]) > 0
              /\ pc[r] \in {"save", "done"}
        /\ obs[r].saves > 0 => obs[r].assigns = 1 /\ obs[r].saves = 1
        /\ Failed(r) =>
              /\ db = obs[r].balAtStart
              /\ obs[r].assigns = obs[r].saves
              /\ obs[r].saves = 1 => res[r] = Failure(500, MsgSaveFailed)

C2_Witness ==
    \E r \in Reqs :
        /\ Failed(r) /\ obs[r].posts = 1 /\ obs[r].assigns = 0
        /\ res[r] = Failure(500, MsgNoImage)
        /\ db = obs[r].balAtStart /\ db > 0

\* C3: a request with userId and prompt present whose account holds a
\* balance of 0 is denied with status 403 reporting that balance; no POST,
\* no status query and no fetch is issued and the balance stays 0.
C3_ZeroBalanceDenied ==
    \A r \in Reqs :
        ( /\ Started(r) /\ pc[r] # "findById"
          /\ ~MissingInput(loc[r].userId, loc[r].prompt)
          /\ loc[r].userId \in Accounts
          /\ obs[r].balAtStart = 0 ) =>
            /\ Done(r)
            /\ res[r] = [Failure(403, MsgNoCredit) EXCEPT !.credit = <<0>>]
            /\ obs[r].posts = 0 /\ obs[r].polls = 0 /\ obs[r].fetches = 0
            /\ obs[r].saves = 0
            /\ db = 0

C3_Witness ==
    \E r \in Reqs :
        /\ Done(r) /\ res[r].status = 403 /\ res[r].credit = <<0>>
        /\ loc[r].userId \in Accounts /\ db = 0 /\ hfToken

\* the upstream reply is a JSON object that is no prediction and carries a
\* non-empty error field
IsErrorReply(body) ==
    /\ JsonParse(body) # <<>>
    /\ ~IsPrediction(JsonParse(body)[1])
    /\ JsonParse(body)[1].error # <<>>

\* C4: when the upstream reply, as byte buffer or as text, is a JSON object
\* without prediction shape that carries a non-empty error, the request
\* ends with a failure response whose message is that error text, no
\* success response is produced, user.save is not called and the balance is
\* unchanged.
C4_ErrorReplyFails ==
    \A r \in Reqs :
        (obs[r].posts = 1 /\ IsErrorReply(loc[r].responseData)) =>
            /\ ~res[r].success
            /\ Done(r) => res[r].message = JsonParse(loc[r].responseData)[1].error
            /\ obs[r].saves = 0
            /\ db = obs[r].balAtStart

\* C5: when the prediction's final status is failed, in the first reply or
\* after polling, as byte buffer or as text, the request ends with a failure
\* response whose message is the prediction's error, or the default message
\* when it has none; no success response is produced, user.save is not
\* called and the balance is unchanged.
C5_FailedPredictionFails ==
    \A r \in Reqs :
        ( /\ pc[r] # "poll"
          /\ IsPrediction(loc[r].jsonData)
          /\ loc[r].jsonData.status = "failed" ) =>
            /\ ~res[r].success
            /\ Done(r) => res[r].message = OrElse(loc[r].jsonData.error, MsgFailed)
            /\ obs[r].saves = 0
            /\ db = obs[r].balAtStart

\* C6: at most maxAttempts status queries are issued, and once a status
\* query has returned succeeded or failed on attempt k, no further attempt
\* is issued.
C6_PollingBounded ==
    \A r \in Reqs :
        /\ obs[r].polls <= maxAttempts
        /\ obs[r].polls = loc[r].attempts
        /\ obs[r].terminalAt > 0 =>
              /\ obs[r].polls = obs[r].terminalAt
              /\ pc[r] # "poll"

C6_Witness ==
    \E r \in Reqs :
        /\ obs[r].polls = maxAttempts
        /\ obs[r].terminalAt = maxAttempts
        /\ pc[r] # "poll"

\* C7: when the attempts are used up and the prediction is still starting
\* or processing, the request ends with a failure response of status 500,
\* never with a success, and the balance is unchanged.
C7_PollTimeoutFails ==
    \A r \in Reqs :
        ( /\ pc[r] # "poll"
          /\ obs[r].polls = maxAttempts
          /\ IsTransient(loc[r].finalPrediction.status) ) =>
            /\ Failed(r)
            /\ res[r] = Failure(500,
                           MsgStillProcessing(loc[r].finalPrediction.status))
            /\ obs[r].assigns = 0 /\ obs[r].saves = 0
            /\ db = obs[r].balAtStart

C7_Witness ==
    \E r \in Reqs :
        /\ Done(r) /\ obs[r].polls = maxAttempts
        /\ obs[r].pollErrors = maxAttempts
        /\ loc[r].responseData.form = "buffer"
        /\ res[r].status = 500

\* C8: a network error on one status query leaves the prediction's status,
\* output and error as they were and does not end the request: polling goes
\* on unless the attempts are used up; the failed attempt counts, so with j
\* failed attempts at most maxAttempts - j queries are answered.
C8_PollErrorRetried ==
    /\ [](\A r \in Reqs :
            /\ obs[r].pollErrors <= obs[r].polls
            /\ obs[r].polls - obs[r].pollErrors
                  <= maxAttempts - obs[r].pollErrors)
    /\ [][\A r \in Reqs :
            obs'[r].pollErrors = obs[r].pollErrors + 1 =>
                /\ loc'[r].finalPrediction = loc[r].finalPrediction
                /\ loc'[r].attempts = loc[r].attempts + 1
                /\ loc'[r].attempts < maxAttempts => pc'[r] = "poll"
                /\ pc'[r] = "poll" => res'[r] = NoResponse]_vars

C8_Witness ==
    \E r \in Reqs :
        /\ pc[r] = "poll"
        /\ obs[r].pollErrors = 2
        /\ obs[r].polls = 5

\* C9: a request whose prompt is blank ends with status 400 at validation;
\* no upstream call is made and the balance is unchanged.
C9_BlankPromptRejected ==
    \A r \in Reqs :
        ( /\ Started(r)
          /\ loc[r].prompt # <<>>
          /\ TrimLeft(loc[r].prompt) = <<>> ) =>
            /\ Done(r)
            /\ res[r] = Failure(400, MsgMissing)
            /\ obs[r].posts = 0
            /\ db = obs[r].balAtStart

\* C10: under any interleaving of requests on the account, the successes
\* never outnumber the credits the account held, and each success lowers
\* the persisted balance by one.
C10_NoOverspending ==
    LET successes == Cardinality({r \in Reqs : Succeeded(r)}) IN
    /\ successes <= credit0
    /\ (\A r \in Reqs : ~Started(r) \/ Done(r)) => db = credit0 - successes

\* the payload of a response's resultImage: what follows data:image/png;base64,
Payload(resultImage) == SubSeq(resultImage, Len(DataPngPrefix) + 1, Len(resultImage))

\* C11: when the upstream reply is the JSON object {status:"succeeded",
\* output:["data:image/png;base64,QUJD"]}, the handler takes QUJD as the
\* payload: it goes on to the debit with resultImage
\* data:image/png;base64,QUJD and answers with a success carrying it.
C11_ScenarioYieldsQUJD ==
    \A r \in Reqs :
        (obs[r].posts = 1 /\ JsonParse(loc[r].responseData) = <<SucceededNoId>>) =>
            /\ pc[r] \in {"save", "done"}
            /\ loc[r].resultImage = DataUriQUJD
            /\ Payload(loc[r].resultImage) = <<"QUJD">>
            /\ (Done(r) /\ obs[r].saves = 0) => res[r].success
            /\ res[r].success => res[r].resultImage = DataUriQUJD

\* C12: no success response carries a payload of zero length after the
\* data:image/png;base64, prefix; a request whose extracted value leaves
\* nothing after its data-URI prefix has ended with the NoImageData failure
\* and without a debit.
C12_NoEmptyPayload ==
    \A r \in Reqs :
        /\ res[r].success => StrLen(Payload(res[r].resultImage)) > 0
        /\ ( /\ Done(r)
             /\ Truthy(loc[r].imageBase64)
             /\ StrLen(StripDataUri(loc[r].imageBase64.v[1])) = 0 ) =>
              /\ res[r] = Failure(500, MsgNoImage)
              /\ obs[r].saves = 0
              /\ db = obs[r].balAtStart

\* s begins with a data-URI prefix data:<mime>;base64, of any mime type
BeginsWithDataUriPrefix(s) ==
    /\ StartsWith(s, <<"data:">>)
    /\ \E i \in 2..(Len(s) - 1) :
          /\ s[i] = ";base64" /\ s[i + 1] = ","
          /\ \A k \in 2..(i - 1) : s[k] # ","

\* C13: in every success response resultImage is data:image/png;base64,
\* followed by a payload that does not itself begin with a data-URI prefix,
\* whatever mime type the upstream used in images, image or output.
C13_UniformPngWrapping ==
    \A r \in Reqs :
        res[r].success =>
            /\ StartsWith(res[r].resultImage, DataPngPrefix)
            /\ ~BeginsWithDataUriPrefix(Payload(res[r].resultImage))

\* the reply is a byte buffer that holds no JSON document
NonJsonBuffer(body) == body.form = "buffer" /\ JsonParse(body) = <<>>

\* the value (0..63) of a character of the base64 alphabet
B64Value(tok) == (CHOOSE i \in 1..64 : B64Alphabet[i] = tok) - 1

\* the bytes a base64 text stands for
RECURSIVE Base64Decode(_)
Base64Decode(s) ==
    IF Len(s) < 4 THEN <<>>
    ELSE LET a == B64Value(s[1])
             b == B64Value(s[2]) IN
         IF s[3] = "=" THEN << (a * 4) + (b \div 16) >>
         ELSE LET c == B64Value(s[3]) IN
              IF s[4] = "="
              THEN << (a * 4) + (b \div 16), ((b % 16) * 16) + (c \div 4) >>
              ELSE << (a * 4) + (b \div 16), ((b % 16) * 16) + (c \div 4),
                      ((c % 4) * 64) + B64Value(s[4]) >>
                   \o Base64Decode(SubSeq(s, 5, Len(s)))

\* C14: a byte-buffer reply that holds no JSON document, also one whose
\* text begins with { or [ and does not parse, makes the handler go on to
\* the debit without an error reaching the response; the payload is the
\* base64 text of the bytes received and decodes to those bytes.  Stated
\* for replies of at least one byte; the only failure admitted is the one
\* of a rejected user.save.
C14_BinaryRoundTrip ==
    \A r \in Reqs :
        ( /\ obs[r].posts = 1
          /\ NonJsonBuffer(loc[r].responseData)
          /\ Len(loc[r].responseData.bytes) > 0 ) =>
            /\ pc[r] \in {"save", "done"}
            /\ Done(r) => res[r].success \/ res[r] = Failure(500, MsgSaveFailed)
            /\ Done(r) =>
                  /\ Payload(loc[r].resultImage) = Base64(loc[r].responseData.bytes)
                  /\ Base64Decode(Payload(loc[r].resultImage))
                        = loc[r].responseData.bytes
            /\ res[r].success => res[r].resultImage = loc[r].resultImage

\* the upstream reply parsed to an object of prediction-handle shape
IsPredictionReply(body) ==
    JsonParse(body) # <<>> /\ IsPrediction(JsonParse(body)[1])

\* a prediction's output is present and not empty
NonEmptyOutput(output) ==
    Truthy(output) /\ Len(output.v) > 0 /\ output.v[1] # <<>>

\* C15: a request whose upstream reply has prediction-handle shape ends
\* with a success only if the handle's final status is succeeded and its
\* output is non-empty; with any other final status, or with succeeded and
\* no output, no success is sent, user.save is not called and the balance
\* is unchanged.
C15_SuccessOnlyIfSucceeded ==
    \A r \in Reqs :
        ( /\ obs[r].posts = 1 /\ pc[r] # "poll"
          /\ IsPredictionReply(loc[r].responseData) ) =>
            LET final == loc[r].jsonData
                good == final.status = "succeeded" /\ NonEmptyOutput(final.output) IN
            /\ res[r].success => good
            /\ ~good =>
                  /\ ~res[r].success
                  /\ obs[r].saves = 0
                  /\ db = obs[r].balAtStart

\* C16: when the secondary fetch of a succeeded prediction's output URL
\* rejects, the fetch is not issued again, no success response is sent, the
\* response is a failure of status 500, user.save is not called and the
\* balance is unchanged.
C16_FetchFailureFails ==
    \A r \in Reqs :
        obs[r].fetchErrors > 0 =>
            /\ obs[r].fetches = 1
            /\ pc[r] # "fetch"
            /\ ~res[r].success
            /\ Done(r) => res[r] = Failure(500, FetchError.message)
            /\ obs[r].saves = 0
            /\ db = obs[r].balAtStart

\* the upstream reply parsed to an object that has no prediction-handle
\* shape and carries neither error nor message
IsPlainObjectReply(body) ==
    /\ JsonParse(body) # <<>>
    /\ ~IsPrediction(JsonParse(body)[1])
    /\ JsonParse(body)[1].error = <<>>
    /\ JsonParse(body)[1].message = <<>>

\* C17: for a JSON object reply without prediction-handle shape and without
\* error or message, in either form: the first element of a non-empty
\* images is the extracted value, also when image is present; otherwise
\* image is; with neither the request fails, without a success, a save or
\* a change of the balance.
C17_ImagesThenImage ==
    \A r \in Reqs :
        (obs[r].posts = 1 /\ IsPlainObjectReply(loc[r].responseData)) =>
            LET j == JsonParse(loc[r].responseData)[1] IN
            IF j.images.t = "array" /\ Len(j.images.v) > 0
            THEN loc[r].imageBase64 = Str(j.images.v[1])
            ELSE IF Truthy(j.image)
            THEN loc[r].imageBase64 = j.image
            ELSE /\ ~res[r].success
                 /\ Done(r) => res[r].status = 500
                 /\ obs[r].saves = 0
                 /\ db = obs[r].balAtStart

\* the output string of a prediction: the string itself, or the first
\* element of the sequence
FirstOutput(output) == output.v[1]

\* C18: a succeeded prediction's output string that is neither an http(s)
\* URL nor a data-URI is the payload of a success response only if it is
\* longer than 100 characters, whether the output is a string or a
\* sequence and whether the reply came as byte buffer or as text.
C18_ShortTextNotAccepted ==
    \A r \in Reqs :
        ( /\ obs[r].posts = 1 /\ pc[r] # "poll"
          /\ IsPrediction(loc[r].jsonData)
          /\ loc[r].jsonData.status = "succeeded"
          /\ NonEmptyOutput(loc[r].jsonData.output)
          /\ ~IsHttpUrl(FirstOutput(loc[r].jsonData.output))
          /\ ~IsDataUri(FirstOutput(loc[r].jsonData.output))
          /\ res[r].success
          /\ Payload(res[r].resultImage) = FirstOutput(loc[r].jsonData.output) ) =>
            StrLen(FirstOutput(loc[r].jsonData.output)) > Base64Threshold

\* the request body of r carries a userId and a prompt
InputPresent(r) == loc[r].userId # "" /\ loc[r].prompt # <<>>

\* the upstream calls r has issued
UpstreamCalls(r) == obs[r].posts + obs[r].polls + obs[r].fetches

\* C19: the stages of a request run in the order validation, account
\* lookup, credit check, upstream call.  The generation POST is issued at
\* most once and only for a request with userId and prompt whose account
\* was found with a balance above 0; a request rejected before answers 400
\* for missing input, else 404 for an unknown account, else 403 for a
\* balance of 0, and issues no upstream call.
C19_StagesInOrder ==
    /\ [](\A r \in Reqs :
            /\ obs[r].posts <= 1
            /\ (pc[r] = "post" \/ obs[r].posts = 1) =>
                  /\ InputPresent(r)
                  /\ loc[r].userId \in Accounts
                  /\ obs[r].balAtStart > 0
            /\ (Started(r) /\ ~InputPresent(r)) =>
                  /\ res[r] = Failure(400, MsgMissing)
                  /\ UpstreamCalls(r) = 0
            /\ ( /\ Started(r) /\ pc[r] # "findById" /\ InputPresent(r)
                 /\ loc[r].userId \notin Accounts ) =>
                  /\ res[r] = Failure(404, MsgNotFound)
                  /\ UpstreamCalls(r) = 0
            /\ ( /\ Started(r) /\ pc[r] # "findById" /\ InputPresent(r)
                 /\ loc[r].userId \in Accounts /\ obs[r].balAtStart <= 0 ) =>
                  /\ res[r].status = 403
                  /\ UpstreamCalls(r) = 0
            /\ (Done(r) /\ obs[r].posts = 0) =>
                  /\ ~res[r].success
                  /\ UpstreamCalls(r) = 0 /\ obs[r].saves = 0
                  /\ \/ res[r].status \in {400, 404, 403}
                     \/ res[r] = Failure(500, MsgNoToken) /\ ~hfToken)
    /\ [][\A r \in Reqs :
            /\ pc'[r] = "findById" => pc[r] \in {"idle", "findById"}
            /\ pc'[r] = "post" => pc[r] \in {"findById", "post"}
            /\ pc'[r] \in {"poll", "fetch", "save"} =>
                  pc[r] \in {"post", "poll", "fetch", "save"}
            /\ obs'[r].posts # obs[r].posts =>
                  /\ pc[r] = "post" /\ pc'[r] # "post"
                  /\ obs'[r].posts = obs[r].posts + 1]_vars

C19_Witness ==
    \E r \in Reqs :
        /\ Done(r) /\ obs[r].posts = 1 /\ obs[r].polls > 0
        /\ InputPresent(r) /\ obs[r].balAtStart = 1

\* the awaits of the handler, before and after which it is suspended or done
Positions == {"idle", "findById", "post", "poll", "fetch", "save", "done"}

\* C20: every invocation of the handler ends and sends exactly one
\* response, a success or a failure: it is always suspended at one of its
\* awaits or has answered, it has answered exactly when a response was
\* sent, a response once sent is never followed by another, and a started
\* request is done in the end, whatever the upstream, the status queries,
\* the secondary fetch and user.save do.
C20_AlwaysOneResponse ==
    /\ [](\A r \in Reqs :
            /\ pc[r] \in Positions
            /\ Done(r) <=> res[r] # NoResponse
            /\ Done(r) => (res[r].success <=> res[r].status = 200)
            /\ Done(r) => (~res[r].success <=> res[r].status >= 400))
    /\ [][\A r \in Reqs :
            res[r] # NoResponse => res'[r] = res[r] /\ pc'[r] = "done"]_vars
    /\ Started(Lone) ~> Done(Lone)

C20_Witness ==
    \E r \in Reqs :
        /\ Done(r) /\ ~res[r].success
        /\ obs[r].polls = maxAttempts /\ obs[r].pollErrors = maxAttempts
        /\ loc[r].finalPrediction.status = "processing"

\* C21: under any interleaving of requests on the account, the persisted
\* creditBalance is an integer from 0 up to the balance the account began
\* with and never increases: once a success has written and reported a
\* balance, the persisted balance is never above it; a balance is written
\* only by the one save of a request that goes on to succeed.
C21_BalanceNeverIncreases ==
    /\ db \in 0..credit0
    /\ \A r \in Reqs :
          /\ obs[r].saves <= 1
          /\ Succeeded(r) =>
                /\ obs[r].saves = 1
                /\ res[r].credit[1] \in 0..credit0
                /\ db <= res[r].credit[1]

====
